---- MODULE Spec2Model ----
(***************************************************************************)
(* Model of the two build-time passes of yari that annotate a rendered     *)
(* document: build/inject-previous-next.ts (guide sequences, their cache,  *)
(* previous/next navigation) and the banner pass (injectBanners and its    *)
(* localisation table).                                                    *)
(*                                                                         *)
(* JavaScript values are encoded as follows.                               *)
(*   - "undefined"/"null" of an object-valued slot is the empty tuple <<>>  *)
(*     and a present value v is the one-element tuple <<v>>.               *)
(*   - a slug is the tuple of its "/"-separated segments.                  *)
(*   - an array index is 0-based, as in the source (ElementAt).            *)
(***************************************************************************)
EXTENDS Integers, Sequences, FiniteSets, TLC

VARIABLES
    \* --- one directory scan followed by one navigation lookup ---
    dir,            \* entries of the parent directory, in readdir order
    pc,             \* "start" | "scanned" | "resolved"
    sequence,       \* the value returned by makeSequence
    \* --- arguments and outputs of the last call ---
    slug,           \* slug argument
    locale,         \* locale argument
    pnEntries,      \* value returned by getPreviousNextEntries
    buttons,        \* markup renderButtons prepended to <body> (<<>> = none)
    \* --- injectPreviousNext with its module-level cache ---
    tree,           \* the file tree: parent directory -> its entries
    pageSequences,  \* the cache: parent -> <<>> (no key) or <<sequence>>
    scans,          \* parent -> number of makeSequence runs so far
    parent,         \* parent key of the last call
    stale,          \* the last call used a sequence the files no longer give
    \* --- injectBanners with its module-level table ---
    l10nStrings,    \* the in-memory localisation table
    l10nReads,      \* reads of L10n-Common.json that returned a table
    metadata,       \* metadata argument of the last call
    run,            \* what the last call did (banners, lookups, error)
    called          \* injectBanners has been called at least once

vars == <<dir, pc, sequence, slug, locale, pnEntries, buttons,
          tree, pageSequences, scans, parent, stale,
          l10nStrings, l10nReads, metadata, run, called>>

seqVars    == <<dir, pc, sequence>>
cacheVars  == <<tree, pageSequences, scans, parent, stale>>
bannerVars == <<l10nStrings, l10nReads, metadata, run, called>>

(***************************************************************************)
(* Bounds                                                                  *)
(***************************************************************************)
MaxChildren     == 3    \* entries of the scanned directory
MaxTreeChildren == 1    \* entries of a directory of the cached file tree
MaxReads        == 2    \* reads of the localisation file
MaxScans        == 2    \* makeSequence runs per parent directory

Null == <<>>
Some(v) == <<v>>

DEFAULT_LOCALE == "en-US"
Locales == {"fr", DEFAULT_LOCALE}

SlugA == <<"Guide", "a">>
SlugB == <<"Guide", "b">>
SlugZ == <<"Guide", "z">>
FileSlugs  == {SlugA, SlugB}          \* slugs found in front matter
QuerySlugs == {SlugA, SlugB, SlugZ}   \* slugs of the page being built
Weights    == {0, 1}

(***************************************************************************)
(* Directory entries.  A Dirent is a directory or not; its index.md is     *)
(* readable and parsable or not; its front matter has a page-type, an      *)
(* optional weight and a slug.                                             *)
(***************************************************************************)
Dirent(d, r, pt, w, s) ==
    [isDirectory |-> d, readable |-> r, pageType |-> pt, weight |-> w, slug |-> s]

PlainFile     == Dirent(FALSE, FALSE, "none", Null, SlugA)
NoIndexDir    == Dirent(TRUE, FALSE, "none", Null, SlugA)
OtherPage     == Dirent(TRUE, TRUE, "landing-page", Some(0), SlugA)
UnweightedGuide == Dirent(TRUE, TRUE, "guide", Null, SlugA)
Guide(s, w)   == Dirent(TRUE, TRUE, "guide", Some(w), s)

Guides   == {Guide(s, w) : s \in FileSlugs, w \in Weights}
Dirents  == {PlainFile, NoIndexDir, OtherPage, UnweightedGuide} \cup Guides
TreeDirents == {NoIndexDir, Guide(SlugA, 0), Guide(SlugB, 1)}

SeqsUpTo(S, n) == UNION {[1..k -> S] : k \in 0..n}

Listings     == SeqsUpTo(Dirents, MaxChildren)
TreeListings == SeqsUpTo(TreeDirents, MaxTreeChildren)

Parents == {"docs/guide/", "docs/api/"}

(***************************************************************************)
(* makeSequence                                                            *)
(***************************************************************************)
isDirectory(entry) == entry.isDirectory

\* matter["page-type"] === "guide" && matter.weight !== undefined
isWeightedGuide(matter) == matter.pageType = "guide" /\ matter.weight # Null

\* one pass of the for loop: readFileSync/frontmatter throw -> nothing pushed
RECURSIVE collect(_)
collect(children) ==
    IF children = <<>> THEN <<>>
    ELSE LET child == Head(children)
             rest  == collect(Tail(children))
         IN  IF child.readable /\ isWeightedGuide(child)
             THEN <<[slug |-> child.slug, weight |-> child.weight[1]]>> \o rest
             ELSE rest

\* a comparator that never answers 0
compareWeightTies(a, b) == IF a.weight >= b.weight THEN 1 ELSE -1

\* the comparator handed to Array.prototype.sort
compareWeight(a, b) ==
    IF a.weight > b.weight THEN 1
    ELSE IF a.weight < b.weight THEN -1
    ELSE 0

\* Array.prototype.sort: a stable comparison sort (ECMAScript 2019), here
\* as insertion of each element behind the last one that does not follow it.
insert(sorted, x) ==
    LET before == {j \in 1..Len(sorted) : compareWeight(sorted[j], x) <= 0}
        pos    == IF before = {} THEN 0
                  ELSE CHOOSE j \in before : \A k \in before : k <= j
    IN  SubSeq(sorted, 1, pos) \o <<x>> \o SubSeq(sorted, pos + 1, Len(sorted))

RECURSIVE sort(_)
sort(s) ==
    IF s = <<>> THEN <<>>
    ELSE insert(sort(SubSeq(s, 1, Len(s) - 1)), s[Len(s)])

\* a validity test that accepts a partial sequence
everyChildAlways(children, entries) == TRUE

\* children.length === sequence.length
everyChildRepresented(children, entries) == Len(children) = Len(entries)

makeSequence(listing) ==
    LET children == SelectSeq(listing, isDirectory)
        entries  == collect(children)
    IN  IF everyChildRepresented(children, entries) THEN sort(entries) ELSE <<>>

(***************************************************************************)
(* getPreviousNextEntries, renderButton, renderButtons                     *)
(***************************************************************************)
ElementAt(s, i) == s[i + 1]

\* Array.prototype.findIndex: 0-based index of the first match, or -1
findIndex(s, wanted) ==
    LET hits == {i \in 1..Len(s) : s[i].slug = wanted}
    IN  IF hits = {} THEN -1
        ELSE (CHOOSE i \in hits : \A j \in hits : i <= j) - 1

\* a lookup whose first test is pageIndex > 1
getPreviousNextEntriesOffByOne(wanted, s) ==
    LET pageIndex == findIndex(s, wanted)
    IN  [previous |-> IF pageIndex > 1
                      THEN Some(ElementAt(s, pageIndex - 1)) ELSE Null,
         next     |-> IF pageIndex < Len(s) - 1
                      THEN Some(ElementAt(s, pageIndex + 1)) ELSE Null]

getPreviousNextEntries(wanted, s) ==
    LET pageIndex == findIndex(s, wanted)
    IN  [previous |-> IF pageIndex > 0
                      THEN Some(ElementAt(s, pageIndex - 1)) ELSE Null,
         next     |-> IF pageIndex < Len(s) - 1
                      THEN Some(ElementAt(s, pageIndex + 1)) ELSE Null]

renderButton(loc, target, label) ==
    [href |-> <<loc, "docs", target>>, label |-> label]

\* slug.split("/").slice(0, -1).join("/")
parentSlug(s) == SubSeq(s, 1, Len(s) - 1)

\* the <li> elements of the <ul class="prev-next"> prepended to <body>,
\* <<>> when the function returns without touching the document
renderButtons(loc, pageSlug, pn) ==
    IF pn.previous = Null /\ pn.next = Null THEN <<>>
    ELSE (IF pn.previous # Null
          THEN <<renderButton(loc, pn.previous[1].slug, "Previous")>> ELSE <<>>)
         \o <<renderButton(loc, parentSlug(pageSlug), "Overview")>>
         \o (IF pn.next # Null
             THEN <<renderButton(loc, pn.next[1].slug, "Next")>> ELSE <<>>)

NullEntries == [previous |-> Null, next |-> Null]

(***************************************************************************)
(* Values of the variables a specification does not use                    *)
(***************************************************************************)
IdleSeq ==
    /\ dir = <<>>
    /\ pc = "start"
    /\ sequence = <<>>

IdleCache ==
    /\ tree = [p \in Parents |-> <<>>]
    /\ pageSequences = [p \in Parents |-> Null]
    /\ scans = [p \in Parents |-> 0]
    /\ parent = "docs/guide/"
    /\ stale = FALSE

IdleCall ==
    /\ slug = SlugA
    /\ locale = DEFAULT_LOCALE
    /\ pnEntries = NullEntries
    /\ buttons = <<>>

(***************************************************************************)
(* SpecSeq: makeSequence applied to one directory, then                    *)
(* getPreviousNextEntries and renderButtons applied to its result          *)
(***************************************************************************)
Scan ==
    /\ pc = "start"
    /\ sequence' = makeSequence(dir)
    /\ pc' = "scanned"
    /\ UNCHANGED <<dir, slug, locale, pnEntries, buttons>>
    /\ UNCHANGED cacheVars
    /\ UNCHANGED bannerVars

Resolve(loc, s) ==
    /\ pc = "scanned"
    /\ slug' = s
    /\ locale' = loc
    /\ pnEntries' = getPreviousNextEntries(s, sequence)
    /\ buttons' = renderButtons(loc, s, getPreviousNextEntries(s, sequence))
    /\ pc' = "resolved"
    /\ UNCHANGED <<dir, sequence>>
    /\ UNCHANGED cacheVars
    /\ UNCHANGED bannerVars

(***************************************************************************)
(* SpecCache: injectPreviousNext over a file tree that may change          *)
(***************************************************************************)
\* a cache test that takes a stored empty sequence for a missing key
cacheMissWhenEmpty(cached) == cached = Null \/ cached = Some(<<>>)

\* !sequence: true of undefined only, an array (also []) being truthy
cacheMiss(cached) == cached = Null

injectPreviousNext(loc, p, s) ==
    LET cached == pageSequences[p]
        miss   == cacheMiss(cached)
        found  == IF miss THEN makeSequence(tree[p]) ELSE cached[1]
        pn     == getPreviousNextEntries(s, found)
    IN  /\ miss => scans[p] < MaxScans
        /\ pageSequences' = IF miss THEN [pageSequences EXCEPT ![p] = Some(found)]
                            ELSE pageSequences
        /\ scans' = IF miss THEN [scans EXCEPT ![p] = @ + 1] ELSE scans
        /\ pnEntries' = pn
        /\ buttons' = renderButtons(loc, s, pn)
        /\ slug' = s
        /\ locale' = loc
        /\ parent' = p
        /\ stale' = (found # makeSequence(tree[p]))
        /\ UNCHANGED tree
        /\ UNCHANGED seqVars
        /\ UNCHANGED bannerVars

\* the environment rewrites the content of a directory between two calls
WriteFiles(p, listing) ==
    /\ listing # tree[p]
    /\ tree' = [tree EXCEPT ![p] = listing]
    /\ UNCHANGED <<pageSequences, scans, parent, stale>>
    /\ UNCHANGED <<slug, locale, pnEntries, buttons>>
    /\ UNCHANGED seqVars
    /\ UNCHANGED bannerVars

(***************************************************************************)
(* The localisation table                                                  *)
(*                                                                         *)
(* A string-valued slot is a record: Undefined (the key is missing or      *)
(* null), or Str(s) with s the tuple of the string's tokens, <<>> being    *)
(* the empty string.  A table maps every banner message identifier to a    *)
(* block that is present (an object of per-locale strings) or absent.      *)
(***************************************************************************)
Undefined == [defined |-> FALSE, str |-> <<>>]
Str(s)    == [defined |-> TRUE, str |-> s]

\* JavaScript truthiness of a string-valued slot
Truthy(v) == v.defined /\ v.str # <<>>

\* a ?? b
Coalesce(a, b) == IF a.defined THEN a ELSE b

MessageIds == {"SecureContextBanner", "ExperimentalBanner", "DeprecatedBanner"}

Cell(id, loc, kind) ==
    CASE kind = "undefined" -> Undefined
      [] kind = "empty"     -> Str(<<>>)
      [] kind = "text"      -> Str(<<id, loc>>)

AbsentBlock == [present |-> FALSE, strings |-> [loc \in Locales |-> Undefined]]

Block(id, fr, en) ==
    [present |-> TRUE,
     strings |-> [loc \in Locales |->
                     Cell(id, loc, IF loc = DEFAULT_LOCALE THEN en ELSE fr)]]

\* the blocks a file may hold for one identifier: none, or the strings
\* (requested locale, default locale) of these kinds
BlockShapes == {<<"undefined", "undefined">>, <<"undefined", "text">>,
                <<"text", "text">>, <<"empty", "text">>,
                <<"undefined", "empty">>}

Tables == {[id \in MessageIds |->
               IF sh[id] = <<>> THEN AbsentBlock ELSE Block(id, sh[id][1], sh[id][2])] :
           sh \in [MessageIds -> BlockShapes \cup {<<>>}]}

EmptyTable == [id \in MessageIds |-> AbsentBlock]

\* Object.keys(l10nStrings).length === 0
isEmptyTable(strings) == \A id \in MessageIds : ~strings[id].present

\* the table after initL10nStrings, `content` being what
\* JSON.parse(fs.readFileSync(l10nPath)) returns if the file is read
initL10nStrings(strings, content) ==
    IF isEmptyTable(strings) THEN content ELSE strings

\* result of a call that may throw
Returned(v) == [threw |-> FALSE, value |-> v]
Thrown      == [threw |-> TRUE, value |-> Undefined]

\* block[locale] on an undefined block is a TypeError
getL10nString(strings, id, loc) ==
    LET block == strings[id]
    IN  IF ~block.present THEN Thrown
        ELSE Returned(Coalesce(block.strings[loc],
                               Coalesce(block.strings[DEFAULT_LOCALE], Undefined)))

(***************************************************************************)
(* Page metadata and the compatibility resolver                            *)
(***************************************************************************)
AbsentList   == [present |-> FALSE, tags |-> <<>>]
TagList(ts)  == [present |-> TRUE, tags |-> ts]

SecurityValues == {AbsentList, TagList(<<"other">>),
                   TagList(<<"other", "secure-context">>)}

AbsentBcd     == [kind |-> "undefined", items |-> <<>>]
BcdString(q)  == [kind |-> "string", items |-> <<q>>]
BcdArray(qs)  == [kind |-> "array", items |-> qs]

Queries == {"api.Unknown", "api.Stable", "api.Experimental",
            "api.Deprecated", "api.Both"}

BcdValues == {AbsentBcd}
             \cup {BcdString(q) : q \in Queries}
             \cup {BcdArray(<<"api.Both">>)}

Metadatas == [security : SecurityValues, bcd : BcdValues]

\* packageBCD(query): the status of the resolved data, or nothing
packageBCD(query) ==
    [found        |-> query # "api.Unknown",
     experimental |-> query \in {"api.Experimental", "api.Both"},
     deprecated   |-> query \in {"api.Deprecated", "api.Both"}]

\* security && security.includes("secure-context")
requiresSecureContext(security) ==
    /\ security.present
    /\ \E i \in 1..Len(security.tags) : security.tags[i] = "secure-context"

\* a test without !Array.isArray(bcdQuery)
isQueryOrArray(bcd) == bcd.kind # "undefined"

\* bcdQuery && !Array.isArray(bcdQuery)
isSingleQuery(bcd) == bcd.kind # "undefined" /\ bcd.kind # "array"

(***************************************************************************)
(* injectBanner and the body of injectBanners.  A run records, for one     *)
(* call: the children of div#_body (each banner is prepended), the banners *)
(* in the order they were inserted, the identifiers looked up, whether the *)
(* call threw, and the number of packageBCD calls.                         *)
(***************************************************************************)
StartRun == [body |-> <<>>, emitted |-> <<>>, lookups |-> <<>>,
             threw |-> FALSE, resolverCalls |-> 0]

injectBanner(r, strings, loc, messageId, bannerClass) ==
    IF r.threw THEN r
    ELSE LET message == getL10nString(strings, messageId, loc)
             looked  == [r EXCEPT !.lookups = Append(@, messageId)]
             banner  == [class |-> bannerClass, message |-> message.value.str]
         IN  IF message.threw THEN [looked EXCEPT !.threw = TRUE]
             ELSE IF Truthy(message.value)
                  THEN [looked EXCEPT !.body = <<banner>> \o @,
                                      !.emitted = Append(@, banner)]
                  ELSE looked

\* injectBanners after initL10nStrings
selectBanners(strings, loc, md) ==
    LET r1 == IF requiresSecureContext(md.security)
              THEN injectBanner(StartRun, strings, loc,
                                "SecureContextBanner", "secure")
              ELSE StartRun
        resolve == ~r1.threw /\ isSingleQuery(md.bcd)
        bcd == packageBCD(md.bcd.items[1])
        r2 == IF resolve
              THEN [r1 EXCEPT !.resolverCalls = @ + 1]
              ELSE r1
        r3 == IF resolve /\ bcd.found /\ bcd.experimental
              THEN injectBanner(r2, strings, loc,
                                "ExperimentalBanner", "experimental")
              ELSE r2
        r4 == IF resolve /\ bcd.found /\ bcd.deprecated
              THEN injectBanner(r3, strings, loc,
                                "DeprecatedBanner", "deprecated")
              ELSE r3
    IN  r4

IdleBanner ==
    /\ l10nStrings = EmptyTable
    /\ l10nReads = 0
    /\ metadata = [security |-> AbsentList, bcd |-> AbsentBcd]
    /\ run = StartRun
    /\ called = FALSE

(***************************************************************************)
(* SpecBanner: a series of injectBanners calls in one process              *)
(***************************************************************************)
\* `content` is what L10n-Common.json under the call's root holds
injectBanners(content, loc, md) ==
    /\ isEmptyTable(l10nStrings) => l10nReads < MaxReads
    /\ l10nStrings' = initL10nStrings(l10nStrings, content)
    /\ l10nReads' = IF isEmptyTable(l10nStrings) THEN l10nReads + 1 ELSE l10nReads
    /\ run' = selectBanners(initL10nStrings(l10nStrings, content), loc, md)
    /\ locale' = loc
    /\ metadata' = md
    /\ called' = TRUE
    /\ UNCHANGED <<slug, pnEntries, buttons>>
    /\ UNCHANGED seqVars
    /\ UNCHANGED cacheVars

\* readFileSync or JSON.parse throws: the call ends in initL10nStrings
injectBannersReadFails(loc, md) ==
    /\ isEmptyTable(l10nStrings)
    /\ run' = [StartRun EXCEPT !.threw = TRUE]
    /\ locale' = loc
    /\ metadata' = md
    /\ called' = TRUE
    /\ UNCHANGED <<l10nStrings, l10nReads>>
    /\ UNCHANGED <<slug, pnEntries, buttons>>
    /\ UNCHANGED seqVars
    /\ UNCHANGED cacheVars

(***************************************************************************)
(* Specifications                                                          *)
(***************************************************************************)
InitSeq ==
    /\ dir \in Listings
    /\ pc = "start"
    /\ sequence = <<>>
    /\ IdleCall
    /\ IdleCache
    /\ IdleBanner

NextSeq ==
    \/ Scan
    \/ \E loc \in Locales, s \in QuerySlugs : Resolve(loc, s)

SpecSeq == InitSeq /\ [][NextSeq]_vars

InitCache ==
    /\ tree \in [Parents -> TreeListings]
    /\ pageSequences = [p \in Parents |-> Null]
    /\ scans = [p \in Parents |-> 0]
    /\ parent = "docs/guide/"
    /\ stale = FALSE
    /\ IdleCall
    /\ IdleSeq
    /\ IdleBanner

NextCache ==
    \/ \E loc \in Locales, p \in Parents, s \in QuerySlugs :
           injectPreviousNext(loc, p, s)
    \/ \E p \in Parents, listing \in TreeListings : WriteFiles(p, listing)

SpecCache == InitCache /\ [][NextCache]_vars

InitBanner ==
    /\ IdleBanner
    /\ IdleCall
    /\ IdleSeq
    /\ IdleCache

NextBanner ==
    \/ \E content \in (IF isEmptyTable(l10nStrings) THEN Tables ELSE {l10nStrings}),
          loc \in Locales, md \in Metadatas :
           injectBanners(content, loc, md)
    \/ \E loc \in Locales, md \in Metadatas : injectBannersReadFails(loc, md)

SpecBanner == InitBanner /\ [][NextBanner]_vars

(***************************************************************************)
(* Properties of getPreviousNextEntries and renderButtons (SpecSeq)        *)
(***************************************************************************)
SlugAbsent == \A i \in 1..Len(sequence) : sequence[i].slug # slug

\* C1: for every sequence and every slug that is the slug of no entry in
\* it, getPreviousNextEntries returns previous = null and next = null, and
\* no navigation markup is emitted.
C1_AbsentSlugGivesNulls ==
    (pc = "resolved" /\ SlugAbsent) => (pnEntries = NullEntries /\ buttons = <<>>)

\* C2: when the slug is found and i is the first index that holds it,
\* previous is the entry at i-1 if there is one and null otherwise, and next
\* is the entry at i+1 if there is one and null otherwise.
C2_FoundSlugNeighbours ==
    pc = "resolved" =>
        \A i \in 1..Len(sequence) :
            (sequence[i].slug = slug /\ \A j \in 1..(i - 1) : sequence[j].slug # slug)
            => /\ pnEntries.previous = IF i > 1 THEN Some(sequence[i - 1]) ELSE Null
               /\ pnEntries.next = IF i < Len(sequence)
                                   THEN Some(sequence[i + 1]) ELSE Null

\* a strictly interior page of a three-entry sequence got both neighbours
C2_Witness ==
    /\ pc = "resolved"
    /\ Len(sequence) = 3
    /\ sequence[2].slug = slug
    /\ sequence[1].slug # slug
    /\ pnEntries = [previous |-> Some(sequence[1]), next |-> Some(sequence[3])]

(***************************************************************************)
(* Properties of makeSequence (SpecSeq)                                    *)
(***************************************************************************)
Subdirs == SelectSeq(dir, LAMBDA e : e.isDirectory)

Sequenceable(e) == e.readable /\ e.pageType = "guide" /\ e.weight # Null

AllSequenceable == \A i \in 1..Len(Subdirs) : Sequenceable(Subdirs[i])

EntryOf(e) == [slug |-> e.slug, weight |-> e.weight[1]]

\* C3: the result of makeSequence is the empty list or has exactly one
\* entry per immediate subdirectory; it is empty as soon as one
\* subdirectory has no readable index.md, is not a guide or has no weight;
\* entries that are not directories play no part and weight 0 is a weight.
C3_AllOrNothing ==
    pc # "start" =>
        /\ sequence = <<>> \/ Len(sequence) = Len(Subdirs)
        /\ ~AllSequenceable => sequence = <<>>
        /\ AllSequenceable =>
              /\ Len(sequence) = Len(Subdirs)
              /\ \A i \in 1..Len(Subdirs) :
                    \E j \in 1..Len(sequence) : sequence[j] = EntryOf(Subdirs[i])

\* a directory with a weighted guide and a subdirectory that is none
\* gave the empty sequence
C3_Witness ==
    /\ pc = "scanned"
    /\ \E i, j \in 1..Len(Subdirs) :
          Sequenceable(Subdirs[i]) /\ ~Sequenceable(Subdirs[j])
    /\ sequence = <<>>

\* C5: when every subdirectory is a guide with a weight, the result holds
\* all of them in ascending order of weight, entries of equal weight in
\* the order of the directory scan.
C5_StableAscending ==
    (pc # "start" /\ AllSequenceable) =>
        LET n == Len(Subdirs)
        IN  \E p \in [1..n -> 1..n] :
               /\ \A i, j \in 1..n : i # j => p[i] # p[j]
               /\ sequence = [i \in 1..n |-> EntryOf(Subdirs[p[i]])]
               /\ \A i, j \in 1..n : i < j =>
                     \/ Subdirs[p[i]].weight[1] < Subdirs[p[j]].weight[1]
                     \/ /\ Subdirs[p[i]].weight[1] = Subdirs[p[j]].weight[1]
                        /\ p[i] < p[j]

\* two guides of equal weight kept their scan order behind a lighter one
\* that was scanned last
C5_Witness ==
    /\ pc = "scanned"
    /\ dir = <<Guide(SlugB, 1), Guide(SlugA, 1), Guide(SlugA, 0)>>
    /\ sequence = <<[slug |-> SlugA, weight |-> 0],
                    [slug |-> SlugB, weight |-> 1],
                    [slug |-> SlugA, weight |-> 1]>>

(***************************************************************************)
(* Properties of the sequence cache (SpecCache)                            *)
(***************************************************************************)
\* C4: makeSequence runs at most once per parent key, also when the first
\* result was empty and when the files changed since; a stored entry is
\* never replaced or removed, and a later call for the key uses it.
C4_ScanOncePerParent ==
    /\ [](\A p \in Parents :
             /\ scans[p] <= 1
             /\ scans[p] = 0 <=> pageSequences[p] = Null)
    /\ [][\A p \in Parents :
             pageSequences[p] # Null =>
                 /\ pageSequences'[p] = pageSequences[p]
                 /\ scans'[p] = scans[p]
                 /\ (tree' = tree /\ parent' = p) =>
                        pnEntries' = getPreviousNextEntries(slug', pageSequences[p][1])]_vars

\* a call was served from a stored empty sequence although the directory
\* now holds a valid sequence
C4_Witness ==
    /\ stale
    /\ pageSequences[parent] = Some(<<>>)
    /\ scans[parent] = 1
    /\ makeSequence(tree[parent]) # <<>>

(***************************************************************************)
(* Properties of injectBanners (SpecBanner)                                *)
(***************************************************************************)
\* the first non-empty string among the requested and the default locale
NonEmptyMessage(id) ==
    LET block == l10nStrings[id]
    IN  IF block.present /\ Truthy(block.strings[locale])
        THEN block.strings[locale]
        ELSE IF block.present /\ Truthy(block.strings[DEFAULT_LOCALE])
             THEN block.strings[DEFAULT_LOCALE]
             ELSE Undefined

\* no string at all at the requested and at the default locale
Unresolvable(id) ==
    \/ ~l10nStrings[id].present
    \/ /\ ~l10nStrings[id].strings[locale].defined
       /\ ~l10nStrings[id].strings[DEFAULT_LOCALE].defined

EmittedAt(class) == {i \in 1..Len(run.emitted) : run.emitted[i].class = class}

LookedUp(id) == \E i \in 1..Len(run.lookups) : run.lookups[i] = id

Status == packageBCD(metadata.bcd.items[1])

\* the condition of each banner, message lookup apart
Applies(id) ==
    CASE id = "SecureContextBanner" -> requiresSecureContext(metadata.security)
      [] id = "ExperimentalBanner"  ->
            metadata.bcd.kind = "string" /\ Status.found /\ Status.experimental
      [] id = "DeprecatedBanner"    ->
            metadata.bcd.kind = "string" /\ Status.found /\ Status.deprecated

ClassOf(id) ==
    CASE id = "SecureContextBanner" -> "secure"
      [] id = "ExperimentalBanner"  -> "experimental"
      [] id = "DeprecatedBanner"    -> "deprecated"

\* the call got past initL10nStrings
TableLoaded == called /\ ~(run.threw /\ run.lookups = <<>>)

\* C6: the secure-context banner is emitted iff security-requirements is
\* present and contains "secure-context" and the table holds a non-empty
\* string for SecureContextBanner at the requested locale or, failing
\* that, at the default locale; the emitted text is that string.
C6_SecureBannerIff ==
    called =>
        LET message == NonEmptyMessage("SecureContextBanner")
        IN  /\ EmittedAt("secure") # {}
               <=> (requiresSecureContext(metadata.security) /\ Truthy(message))
            /\ \A i \in EmittedAt("secure") : run.emitted[i].message = message.str

\* C7: when a banner's condition holds and no message resolves for it,
\* also when the table has no entry for the identifier, the banner is
\* omitted, no error is raised and the remaining banners are still
\* evaluated; no banner is emitted with an empty message.
C7_UnresolvableBannerSkipped ==
    TableLoaded =>
        /\ (\E id \in MessageIds : Applies(id) /\ Unresolvable(id)) =>
              /\ ~run.threw
              /\ \A id \in MessageIds :
                    /\ Applies(id) => LookedUp(id)
                    /\ (Applies(id) /\ Unresolvable(id)) => EmittedAt(ClassOf(id)) = {}
        /\ \A i \in 1..Len(run.emitted) : run.emitted[i].message # <<>>

\* C8: when browser-compat is a list, neither the experimental nor the
\* deprecated banner is emitted or looked up, the resolver is not called,
\* and the banners emitted are those of the same call without
\* browser-compat.
C8_ArraySkipsCompatBanners ==
    (called /\ metadata.bcd.kind = "array") =>
        /\ run.resolverCalls = 0
        /\ EmittedAt("experimental") = {} /\ EmittedAt("deprecated") = {}
        /\ ~LookedUp("ExperimentalBanner") /\ ~LookedUp("DeprecatedBanner")
        /\ TableLoaded =>
              run.emitted =
                  selectBanners(l10nStrings, locale,
                                [metadata EXCEPT !.bcd = AbsentBcd]).emitted

\* a list whose element is experimental and deprecated, with both messages
\* in the table, left the secure-context banner alone on the page
C8_Witness ==
    /\ called
    /\ metadata.bcd = BcdArray(<<"api.Both">>)
    /\ Truthy(NonEmptyMessage("ExperimentalBanner"))
    /\ Truthy(NonEmptyMessage("DeprecatedBanner"))
    /\ Len(run.emitted) = 1
    /\ run.emitted[1].class = "secure"

Rank(class) ==
    CASE class = "secure" -> 1 [] class = "experimental" -> 2 [] class = "deprecated" -> 3

CodeMessage(id) == getL10nString(l10nStrings, id, locale)

\* C9: at most three banners are emitted, each kind at most once, in the
\* order secure-context, experimental, deprecated; when the resolved status
\* is both experimental and deprecated and both messages resolve, both
\* banners are emitted, experimental before deprecated.
C9_FixedOrder ==
    called =>
        /\ Len(run.emitted) <= 3
        /\ \A i, j \in 1..Len(run.emitted) :
              i < j => Rank(run.emitted[i].class) < Rank(run.emitted[j].class)
        /\ ( /\ TableLoaded
             /\ Applies("ExperimentalBanner") /\ Applies("DeprecatedBanner")
             /\ ~CodeMessage("ExperimentalBanner").threw
             /\ Truthy(CodeMessage("ExperimentalBanner").value)
             /\ ~CodeMessage("DeprecatedBanner").threw
             /\ Truthy(CodeMessage("DeprecatedBanner").value) )
           => \E i \in EmittedAt("experimental"), j \in EmittedAt("deprecated") : i < j

\* C10: the localisation file is read at most once in a process, whatever
\* table it holds.
C10_TableReadOnce == l10nReads <= 1

====
